---- MODULE Spec2Model ----
(***************************************************************************)
(* auth.py: the /login and /signup endpoints over the table                *)
(* users(email UNIQUE, password) of simulation.db.                         *)
(*                                                                         *)
(* Each request runs on its own thread of the server; a thread is idle, or *)
(* it is at a statement of login() or signup().  pc names the line of      *)
(* auth.py the thread executes next.  Request bodies carry both fields     *)
(* (username, password); a body without them fails outside the two error   *)
(* paths of the file and is not modelled.                                  *)
(*                                                                         *)
(* Storage is sqlite3 as auth.py uses it: a connection per request, the    *)
(* INSERT opens the connection's write transaction (one writer at a time,  *)
(* a second writer waits), the UNIQUE constraint is checked by the INSERT  *)
(* statement, commit() publishes the row, and a connection that is never   *)
(* closed keeps its transaction until the runtime reclaims the object.     *)
(* A wait that outlasts sqlite3's timeout is storage being unavailable,    *)
(* which auth.py does not handle; the model lets the writer wait.          *)
(***************************************************************************)
EXTENDS Naturals, Sequences, FiniteSets

\* Number of server threads handling requests concurrently.
NWorkers == 2

Threads == 1 .. NWorkers

\* Number of requests the server receives in a run.
MaxRequests == 3

\* Request inputs.
Identifiers == {"ann@x", "bob@x"}
Secrets == {"pw1", "pw2"}
Methods == {"POST", "OPTIONS"}

None == "None"

VARIABLES
    users,            \* the table: sequence of rows [email, password]
    writer,           \* threads whose connection holds the write transaction (at most one)
    garbage,          \* connections left open by handlers that returned: for each,
                      \* whether it still holds the write transaction
    pc,               \* per thread: next line of auth.py, "idle" or "done"
    request,          \* per thread: flask request [route, method, username, password]
    hashed_password,  \* per thread: local of signup
    conn,             \* per thread: "none", "open" or "closed"
    txn,              \* per thread: rows inserted but not yet committed
    result,           \* per thread: local of login, <<>> for None or the fetched 1-tuple
    response,         \* per thread: the (json, status) returned
    received,         \* number of requests received so far
    prior,            \* history: what signup found at arrival: fresh/stored/raced
    known,            \* history: login arrived after a 201 for the same credentials
    conflicts,        \* history: secrets of 409 signups for the identifier seen at login arrival
    seen,             \* history: rows of the identifier when the INSERT ran
    created,          \* history: per identifier, secrets of signups that returned 201
    committed,        \* history: (identifier, secret) pairs whose signup committed
    winner            \* history: per identifier, the thread whose request in progress
                      \* committed its row

vars == <<users, writer, garbage, pc, request, hashed_password, conn, txn, result,
          response, received, prior, known, conflicts, seen, created, committed, winner>>

----------------------------------------------------------------------------
(* flask_bcrypt and flask_jwt_extended, as auth.py calls them. *)

\* bcrypt's digest of a secret under a salt: a one-way term.
Crypt(salt, secret) == <<"bcrypt", salt, secret>>

\* A salt, named by a number.
Salt(n) == <<"salt", n>>

\* The salts of the hashes there are: in the table, in uncommitted rows and in
\* the handlers' locals.
SaltsInUse ==
    {users[i].password.salt : i \in 1 .. Len(users)}
        \cup {hashed_password[r].salt : r \in Threads}

\* bcrypt.gensalt() draws 128 random bits, so a call yields a salt no hash in
\* existence carries: the least-numbered such salt stands for it.
gensalt ==
    Salt(CHOOSE n \in 1 .. Cardinality(SaltsInUse) + 1 :
            /\ Salt(n) \notin SaltsInUse
            /\ \A m \in 1 .. n - 1 : Salt(m) \in SaltsInUse)

\* bcrypt.generate_password_hash(password).decode('utf-8') under the salt drawn.
generate_password_hash(secret, salt) == [salt |-> salt, digest |-> Crypt(salt, secret)]

\* Variant: the digest is recomputed under a salt of its own, not the stored one.
check_password_hash_resalted(pw_hash, secret) ==
    Crypt(Salt(0), secret) = pw_hash.digest

\* Variant: any secret is accepted once a hash is at hand.
check_password_hash_any(pw_hash, secret) == pw_hash.digest # <<>>

\* bcrypt.check_password_hash(pw_hash, password): recompute under the stored salt.
check_password_hash(pw_hash, secret) == Crypt(pw_hash.salt, secret) = pw_hash.digest

\* create_access_token(identity=username)
create_access_token(identity) == [sub |-> identity]

\* get_current_user_email(): get_jwt_identity() of the request's token.
get_current_user_email(token) == token.sub

----------------------------------------------------------------------------
(* The table. *)

\* Rows whose email is the given one.
RowsFor(email) == {i \in 1 .. Len(users) : users[i].email = email}

\* Variant: the SELECT has no WHERE clause and fetches the table's first row.
fetchone_nowhere(email) ==
    IF users = <<>> THEN <<>> ELSE <<users[1].password>>

\* SELECT password FROM users WHERE email = ?  followed by fetchone()
fetchone(email) ==
    IF RowsFor(email) = {} THEN <<>>
    ELSE <<users[CHOOSE i \in RowsFor(email) : \A j \in RowsFor(email) : i <= j].password>>

\* Variant: the email column carries no UNIQUE constraint.
IntegrityError_off(email) == FALSE

\* The UNIQUE constraint on email, checked by the INSERT statement.
IntegrityError(email) == RowsFor(email) # {}

\* Connections that are open: those held by handlers plus those left behind.
OpenConnections == Cardinality({r \in Threads : conn[r] = "open"}) + Len(garbage)

\* Variant: writers do not wait for each other.
WriteLockFree_off == TRUE

\* The write transaction is free: a writer that finds it taken waits.
WriteLockFree == writer = {} /\ \A i \in 1 .. Len(garbage) : ~garbage[i]

jsonify(body, status) == [json |-> body, status |-> status]

NoRequest == [route |-> None, method |-> None, username |-> None, password |-> None]
NoHash == [salt |-> <<>>, digest |-> <<>>]
NoResponse == [json |-> [message |-> None], status |-> 0]

Requests(route) ==
    [route : {route}, method : Methods, username : Identifiers, password : Secrets]

Init ==
    /\ users = <<>>
    /\ writer = {}
    /\ garbage = <<>>
    /\ pc = [r \in Threads |-> "idle"]
    /\ request = [r \in Threads |-> NoRequest]
    /\ hashed_password = [r \in Threads |-> NoHash]
    /\ conn = [r \in Threads |-> "none"]
    /\ txn = [r \in Threads |-> <<>>]
    /\ result = [r \in Threads |-> <<>>]
    /\ response = [r \in Threads |-> NoResponse]
    /\ received = 0
    /\ prior = [r \in Threads |-> None]
    /\ known = [r \in Threads |-> FALSE]
    /\ conflicts = [r \in Threads |-> {}]
    /\ seen = [r \in Threads |-> <<>>]
    /\ created = [u \in Identifiers |-> <<>>]
    /\ committed = {}
    /\ winner = [u \in Identifiers |-> {}]

storage == <<users, writer, garbage>>
locals == <<hashed_password, conn, txn, result>>
history == <<prior, known, conflicts, seen, created, committed, winner>>

----------------------------------------------------------------------------
(* login() *)

\* Variant: the OPTIONS test comes after the connection is opened.
LoginOptions_connected(r) ==
    /\ pc[r] = "idle"
    /\ received < MaxRequests
    /\ received' = received + 1
    /\ \E req \in Requests("login") :
          /\ req.method = "OPTIONS"
          /\ request' = [request EXCEPT ![r] =
                [req EXCEPT !.username = None, !.password = None]]
    /\ conn' = [conn EXCEPT ![r] = "open"]
    /\ response' = [response EXCEPT ![r] = jsonify([status |-> "ok"], 200)]
    /\ pc' = [pc EXCEPT ![r] = "done"]
    /\ UNCHANGED <<users, writer, garbage, hashed_password, txn, result,
                   prior, known, conflicts, seen, created, committed, winner>>

\* Lines 10-13: an OPTIONS request to /login is answered at once.
LoginOptions(r) ==
    /\ pc[r] = "idle"
    /\ received < MaxRequests
    /\ received' = received + 1
    /\ \E req \in Requests("login") :
          /\ req.method = "OPTIONS"
          /\ request' = [request EXCEPT ![r] =
                [req EXCEPT !.username = None, !.password = None]]
    /\ response' = [response EXCEPT ![r] = jsonify([status |-> "ok"], 200)]
    /\ pc' = [pc EXCEPT ![r] = "done"]
    /\ UNCHANGED <<storage, hashed_password, conn, txn, result, history>>

\* Lines 10-22: a POST to /login; the body is read, a connection opened and
\* SELECT password FROM users WHERE email = ? run, with fetchone().
LoginSelect(r) ==
    /\ pc[r] = "idle"
    /\ received < MaxRequests
    /\ received' = received + 1
    /\ \E req \in Requests("login") :
          /\ req.method = "POST"
          /\ request' = [request EXCEPT ![r] = req]
          /\ result' = [result EXCEPT ![r] = fetchone(req.username)]
          /\ known' = [known EXCEPT ![r] =
                \E i \in 1 .. Len(created[req.username]) :
                    created[req.username][i] = req.password]
          /\ conflicts' = [conflicts EXCEPT ![r] =
                {request[q].password : q \in {t \in Threads :
                    /\ pc[t] = "done"
                    /\ request[t].route = "signup"
                    /\ request[t].method = "POST"
                    /\ request[t].username = req.username
                    /\ response[t].status = 409}}]
    /\ conn' = [conn EXCEPT ![r] = "open"]
    /\ pc' = [pc EXCEPT ![r] = "L23"]
    /\ UNCHANGED <<storage, hashed_password, txn, response,
                   prior, seen, created, committed, winner>>

\* Variant: a successful login stores the hash again under a new salt.
LoginCheck_rehash(r) ==
    /\ pc[r] = "L23"
    /\ conn' = [conn EXCEPT ![r] = "closed"]
    /\ response' = [response EXCEPT ![r] =
          IF result[r] # <<>> /\ check_password_hash(result[r][1], request[r].password)
          THEN jsonify([access_token |-> create_access_token(request[r].username)], 200)
          ELSE jsonify([message |-> "Invalid credentials"], 401)]
    /\ users' = [i \in 1 .. Len(users) |->
          IF /\ users[i].email = request[r].username
             /\ check_password_hash(users[i].password, request[r].password)
          THEN [users[i] EXCEPT !.password =
                   generate_password_hash(request[r].password, gensalt)]
          ELSE users[i]]
    /\ pc' = [pc EXCEPT ![r] = "done"]
    /\ UNCHANGED <<received, writer, garbage, request, hashed_password, txn, result,
                   prior, known, conflicts, seen, created, committed, winner>>

\* Lines 23-29: the connection is closed, the secret verified, the answer returned.
LoginCheck(r) ==
    /\ pc[r] = "L23"
    /\ conn' = [conn EXCEPT ![r] = "closed"]
    /\ response' = [response EXCEPT ![r] =
          IF result[r] # <<>> /\ check_password_hash(result[r][1], request[r].password)
          THEN jsonify([access_token |-> create_access_token(request[r].username)], 200)
          ELSE jsonify([message |-> "Invalid credentials"], 401)]
    /\ pc' = [pc EXCEPT ![r] = "done"]
    /\ UNCHANGED <<received, storage, request, hashed_password, txn, result, history>>

----------------------------------------------------------------------------
(* signup() *)

\* Lines 31-34: an OPTIONS request to /signup is answered at once.
SignupOptions(r) ==
    /\ pc[r] = "idle"
    /\ received < MaxRequests
    /\ received' = received + 1
    /\ \E req \in Requests("signup") :
          /\ req.method = "OPTIONS"
          /\ request' = [request EXCEPT ![r] =
                [req EXCEPT !.username = None, !.password = None]]
    /\ response' = [response EXCEPT ![r] = jsonify([status |-> "ok"], 200)]
    /\ pc' = [pc EXCEPT ![r] = "done"]
    /\ UNCHANGED <<storage, hashed_password, conn, txn, result, history>>

\* Lines 31-44: a POST to /signup; the body is read, the secret hashed under a
\* fresh salt and a connection opened.
SignupConnect(r) ==
    /\ pc[r] = "idle"
    /\ received < MaxRequests
    /\ received' = received + 1
    /\ \E req \in Requests("signup") :
          /\ req.method = "POST"
          /\ request' = [request EXCEPT ![r] = req]
          /\ hashed_password' = [hashed_password EXCEPT ![r] =
                generate_password_hash(req.password, gensalt)]
          /\ prior' = [prior EXCEPT ![r] =
                IF RowsFor(req.username) = {} THEN "fresh" ELSE "stored"]
    /\ conn' = [conn EXCEPT ![r] = "open"]
    /\ pc' = [pc EXCEPT ![r] = "L45"]
    /\ UNCHANGED <<storage, txn, result, response,
                   known, conflicts, seen, created, committed, winner>>

\* Variant: INSERT OR REPLACE, the duplicate being reported all the same.
SignupInsert_replace(r) ==
    /\ pc[r] = "L45"
    /\ WriteLockFree
    /\ writer' = writer \cup {r}
    /\ seen' = [seen EXCEPT ![r] = fetchone(request[r].username)]
    /\ IF IntegrityError(request[r].username)
       THEN /\ response' = [response EXCEPT ![r] =
                  jsonify([status |-> "error", message |-> "User already exists"], 409)]
            /\ pc' = [pc EXCEPT ![r] = "done"]
            /\ txn' = txn
            /\ users' = [i \in 1 .. Len(users) |->
                  IF users[i].email = request[r].username
                  THEN [users[i] EXCEPT !.password = hashed_password[r]]
                  ELSE users[i]]
       ELSE /\ txn' = [txn EXCEPT ![r] =
                  <<[email |-> request[r].username, password |-> hashed_password[r]]>>]
            /\ pc' = [pc EXCEPT ![r] = "L46"]
            /\ response' = response
            /\ users' = users
    /\ UNCHANGED <<received, garbage, request, hashed_password, conn, result,
                   prior, known, conflicts, created, committed, winner>>

\* Lines 45, 49-50: INSERT INTO users (email, password) VALUES (?, ?).  The
\* statement waits for the write transaction, takes it, and checks the UNIQUE
\* constraint.  On a violation it raises sqlite3.IntegrityError, which the handler
\* catches to return 409: the connection stays open with its transaction.
SignupInsert(r) ==
    /\ pc[r] = "L45"
    /\ WriteLockFree
    /\ writer' = writer \cup {r}
    /\ seen' = [seen EXCEPT ![r] = fetchone(request[r].username)]
    /\ IF IntegrityError(request[r].username)
       THEN /\ response' = [response EXCEPT ![r] =
                  jsonify([status |-> "error", message |-> "User already exists"], 409)]
            /\ pc' = [pc EXCEPT ![r] = "done"]
            /\ txn' = txn
       ELSE /\ txn' = [txn EXCEPT ![r] =
                  <<[email |-> request[r].username, password |-> hashed_password[r]]>>]
            /\ pc' = [pc EXCEPT ![r] = "L46"]
            /\ response' = response
    /\ UNCHANGED <<received, users, garbage, request, hashed_password, conn, result,
                   prior, known, conflicts, created, committed, winner>>

\* Line 46: conn.commit() publishes the row and ends the write transaction.
SignupCommit(r) ==
    /\ pc[r] = "L46"
    /\ users' = users \o txn[r]
    /\ txn' = [txn EXCEPT ![r] = <<>>]
    /\ writer' = writer \ {r}
    /\ committed' = committed \cup {<<request[r].username, request[r].password>>}
    /\ winner' = [winner EXCEPT ![request[r].username] = {r}]
    /\ prior' = [q \in Threads |->
          IF /\ q # r
             /\ pc[q] = "L45"
             /\ request[q].username = request[r].username
             /\ prior[q] = "fresh"
          THEN "raced" ELSE prior[q]]
    /\ pc' = [pc EXCEPT ![r] = "L47"]
    /\ UNCHANGED <<received, garbage, request, hashed_password, conn, result, response,
                   known, conflicts, seen, created>>

\* Lines 47-48: conn.close(); return 201.
SignupClose(r) ==
    /\ pc[r] = "L47"
    /\ conn' = [conn EXCEPT ![r] = "closed"]
    /\ response' = [response EXCEPT ![r] =
          jsonify([status |-> "success", message |-> "User created"], 201)]
    /\ created' = [created EXCEPT ![request[r].username] =
          Append(@, request[r].password)]
    /\ pc' = [pc EXCEPT ![r] = "done"]
    /\ UNCHANGED <<received, storage, request, hashed_password, txn, result,
                   prior, known, conflicts, seen, committed, winner>>

----------------------------------------------------------------------------
(* The runtime around the handlers. *)

\* The handler's frame is released and the thread is free for the next request.
\* A connection the handler did not close is left behind, with its transaction.
Return(r) ==
    /\ pc[r] = "done"
    /\ pc' = [pc EXCEPT ![r] = "idle"]
    /\ garbage' = IF conn[r] = "open" THEN Append(garbage, r \in writer) ELSE garbage
    /\ writer' = writer \ {r}
    /\ request' = [request EXCEPT ![r] = NoRequest]
    /\ hashed_password' = [hashed_password EXCEPT ![r] = NoHash]
    /\ conn' = [conn EXCEPT ![r] = "none"]
    /\ txn' = [txn EXCEPT ![r] = <<>>]
    /\ result' = [result EXCEPT ![r] = <<>>]
    /\ response' = [response EXCEPT ![r] = NoResponse]
    /\ prior' = [prior EXCEPT ![r] = None]
    /\ known' = [known EXCEPT ![r] = FALSE]
    /\ conflicts' = [conflicts EXCEPT ![r] = {}]
    /\ seen' = [seen EXCEPT ![r] = <<>>]
    /\ winner' = [u \in Identifiers |-> winner[u] \ {r}]
    /\ UNCHANGED <<received, users, created, committed>>

\* The runtime reclaims a connection object nobody closed: sqlite3 closes it and
\* rolls its transaction back.  When this happens is up to the runtime.
Finalize ==
    /\ garbage # <<>>
    /\ \E i \in 1 .. Len(garbage) :
          garbage' = [j \in 1 .. Len(garbage) - 1 |->
                         IF j < i THEN garbage[j] ELSE garbage[j + 1]]
    /\ UNCHANGED <<received, users, writer, pc, request, locals, response, history>>

Next ==
    \/ \E r \in Threads : LoginOptions(r)
    \/ \E r \in Threads : LoginSelect(r)
    \/ \E r \in Threads : LoginCheck(r)
    \/ \E r \in Threads : SignupOptions(r)
    \/ \E r \in Threads : SignupConnect(r)
    \/ \E r \in Threads : SignupInsert(r)
    \/ \E r \in Threads : SignupCommit(r)
    \/ \E r \in Threads : SignupClose(r)
    \/ \E r \in Threads : Return(r)
    \/ Finalize

Spec == Init /\ [][Next]_vars

----------------------------------------------------------------------------
(* Properties. *)

\* The thread has returned from the handler of a POST to the route.
Returned(r, route) ==
    /\ pc[r] = "done"
    /\ request[r].route = route
    /\ request[r].method = "POST"

Conflict == jsonify([status |-> "error", message |-> "User already exists"], 409)
Unauthorized == jsonify([message |-> "Invalid credentials"], 401)
Token(r) == jsonify([access_token |-> create_access_token(request[r].username)], 200)

\* C1: a signup for an identifier that is not stored, and that no other request
\* stores in between, returns 201; a login that runs after a signup returned 201
\* for the same identifier and secret returns 200 with an access token.
C1_SignupThenLogin ==
    \A r \in Threads :
        /\ Returned(r, "signup") /\ prior[r] = "fresh" => response[r].status = 201
        /\ Returned(r, "login") /\ known[r] => response[r] = Token(r)

C1_Witness ==
    \E r, q \in Threads :
        /\ Returned(r, "signup") /\ prior[r] = "fresh" /\ response[r].status = 201
        /\ Returned(q, "login") /\ known[q] /\ response[q].status = 200
        /\ request[q].username = request[r].username
        /\ request[q].password = request[r].password
        /\ Len(users) > 1

\* C2: a signup for an identifier that has a row when the request arrives returns
\* 409 with status "error", whatever the secret.
C2_DuplicateIsConflict ==
    \A r \in Threads :
        Returned(r, "signup") /\ prior[r] = "stored" => response[r] = Conflict

C2_Witness ==
    \E r \in Threads :
        /\ Returned(r, "signup") /\ prior[r] = "stored"
        /\ <<request[r].username, request[r].password>> \in committed
        /\ response[r].status = 409

\* The secret is the one the hash was made from.
Matches(pw_hash, secret) == pw_hash.digest = Crypt(pw_hash.salt, secret)

\* C3: a login returns 401 and no token when the identifier has no row or the
\* secret supplied does not match the hash stored for the identifier.
C3_BadCredentialsUnauthorized ==
    \A r \in Threads :
        /\ Returned(r, "login")
        /\ \/ RowsFor(request[r].username) = {}
           \/ \E i \in RowsFor(request[r].username) :
                  ~Matches(users[i].password, request[r].password)
        => response[r] = Unauthorized

C3_Witness ==
    \E r \in Threads :
        /\ Returned(r, "login")
        /\ \E i \in RowsFor(request[r].username) :
               ~Matches(users[i].password, request[r].password)
        /\ response[r].status = 401

\* C4: no two rows of the users table have the same email.
C4_UniqueIdentifier ==
    \A i, j \in 1 .. Len(users) : users[i].email = users[j].email => i = j

C4_Witness ==
    \E r, q \in Threads :
        /\ r # q
        /\ Returned(r, "signup") /\ Returned(q, "signup")
        /\ request[r].username = request[q].username
        /\ prior[r] # "stored" /\ prior[q] # "stored"
        /\ Cardinality(RowsFor(request[r].username)) = 1

\* C5: the step that serves an OPTIONS request returns 200 {status: "ok"} and
\* leaves the table, the write transaction and every connection as they were.
C5_OptionsTouchNothing ==
    [][\A r \in Threads :
          pc[r] = "idle" /\ request'[r].method = "OPTIONS" =>
              /\ pc'[r] = "done"
              /\ response'[r] = jsonify([status |-> "ok"], 200)
              /\ <<users, writer, garbage, conn, txn, result>>' =
                 <<users, writer, garbage, conn, txn, result>>]_vars

C5_Witness ==
    \E r, q \in Threads :
        /\ pc[r] = "done" /\ request[r].method = "OPTIONS"
        /\ response[r].status = 200
        /\ conn[r] = "none"
        /\ users # <<>>
        /\ pc[q] = "L46"

\* C6: a request that has returned its response has no open connection, and no
\* connection is open while no request is in progress.
C6_ConnectionsClosed ==
    /\ \A r \in Threads : pc[r] = "done" => conn[r] # "open"
    /\ (\A r \in Threads : pc[r] \in {"idle", "done"}) => OpenConnections = 0

\* C7: every step keeps the rows there are as they are; a step that changes the
\* table is a signup's commit appending its row; no step of a login changes it.
C7_RowsOnlyAppended ==
    [][/\ Len(users') >= Len(users)
       /\ \A i \in 1 .. Len(users) : users'[i] = users[i]
       /\ users' # users =>
             \E r \in Threads :
                 /\ request[r].route = "signup"
                 /\ pc[r] = "L46"
                 /\ users' = Append(users, [email |-> request[r].username,
                                            password |-> hashed_password[r]])
       /\ \A r \in Threads :
             request'[r].route = "login" /\ pc'[r] # pc[r] => users' = users]_vars

C7_Witness ==
    \E r, q \in Threads :
        /\ Returned(r, "login") /\ response[r].status = 200
        /\ Returned(q, "login") /\ response[q].status = 401
        /\ request[q].username = request[r].username
        /\ users # <<>>

\* C8: of the signups for one identifier that arrived while it had no row, the one
\* whose INSERT ran first returns 201 and its hash is the one stored; every other
\* returns 409; no identifier sees two 201.
C8_OneWinner ==
    /\ \A u \in Identifiers : Len(created[u]) <= 1
    /\ \A r \in Threads :
          Returned(r, "signup") /\ prior[r] \in {"fresh", "raced"} =>
              IF r \in winner[request[r].username]
              THEN /\ response[r].status = 201
                   /\ fetchone(request[r].username) = <<hashed_password[r]>>
              ELSE /\ response[r] = Conflict
                   /\ prior[r] = "raced"
    /\ \A r, q \in Threads :
          /\ r # q
          /\ Returned(r, "signup") /\ Returned(q, "signup")
          /\ request[r].username = request[q].username
          /\ prior[r] # "stored" /\ prior[q] # "stored"
          => \/ response[r].status = 201 /\ response[q].status = 409
             \/ response[r].status = 409 /\ response[q].status = 201
             \/ winner[request[r].username] = {}

C8_Witness ==
    \E r, q \in Threads :
        /\ Returned(r, "signup") /\ Returned(q, "signup")
        /\ request[r].username = request[q].username
        /\ request[r].password # request[q].password
        /\ prior[r] = "fresh" /\ prior[q] = "raced"
        /\ response[r].status = 201 /\ response[q].status = 409
        /\ fetchone(request[r].username) = <<hashed_password[r]>>

\* C9 as stated: a login returns 200 only after a signup for the same identifier
\* and secret has returned 201, and the token names the identifier of the login.
C9_LoginOnlyAfter201 ==
    \A r \in Threads :
        Returned(r, "login") /\ response[r].status = 200 =>
            /\ \E i \in 1 .. Len(created[request[r].username]) :
                   created[request[r].username][i] = request[r].password
            /\ get_current_user_email(response[r].json.access_token) = request[r].username

\* C9 amended: a login returns 200 only after a signup for the same identifier and
\* secret has committed its row; that signup has returned 201 or is at the return
\* of its 201; the token names the identifier of the login; any other login
\* issues no token.
C9_LoginOnlyAfterCommit ==
    /\ \A r \in Threads :
          Returned(r, "login") =>
              IF response[r].status = 200
              THEN /\ <<request[r].username, request[r].password>> \in committed
                   /\ RowsFor(request[r].username) # {}
                   /\ get_current_user_email(response[r].json.access_token)
                          = request[r].username
              ELSE response[r] = Unauthorized
    /\ \A c \in committed :
          \/ \E i \in 1 .. Len(created[c[1]]) : created[c[1]][i] = c[2]
          \/ \E q \in Threads :
                 /\ pc[q] = "L47"
                 /\ request[q].route = "signup"
                 /\ <<request[q].username, request[q].password>> = c

C9_Witness ==
    \E r, q \in Threads :
        /\ Returned(r, "login") /\ response[r].status = 200
        /\ created[request[r].username] = <<>>
        /\ pc[q] = "L47" /\ request[q].username = request[r].username

\* C10: while a signup has its 409, the row of its identifier is the one its
\* INSERT met; a login that runs after the 409 returns 200 for the secret the
\* row was made from and 401 for any other, the rejected one included.
C10_ConflictChangesNothing ==
    /\ \A q \in Threads :
          Returned(q, "signup") /\ response[q].status = 409 =>
              /\ seen[q] # <<>>
              /\ fetchone(request[q].username) = seen[q]
              /\ Cardinality(RowsFor(request[q].username)) = 1
              /\ txn[q] = <<>>
    /\ \A r \in Threads :
          Returned(r, "login") /\ conflicts[r] # {} =>
              response[r] = IF <<request[r].username, request[r].password>> \in committed
                            THEN Token(r) ELSE Unauthorized

C10_Witness ==
    \E r, q \in Threads :
        /\ Returned(q, "signup") /\ response[q].status = 409
        /\ Returned(r, "login") /\ request[r].username = request[q].username
        /\ request[q].password \in conflicts[r]
        /\ request[r].password # request[q].password
        /\ response[r].status = 200

====
